---- MODULE Spec2Model ----
(***************************************************************************)
(* A model of the CDCL solver of src/src/solver.rs (CdclSolver::solve and  *)
(* the operations it calls) over the value types of src/src/wff.rs, of the *)
(* DIMACS reader of src/src/main.rs and of the encoder of                  *)
(* src/src/tseitin.rs.                                                     *)
(*                                                                         *)
(* A literal is a record [value, negation] (wff.rs Literal), a clause is   *)
(* the sequence of its literals (Clause.literals: Vec<Literal>), the       *)
(* clause database is a sequence of clauses (Formula.clauses).  An         *)
(* Option<T> is a sequence of length 0 (None) or 1 (Some).                 *)
(*                                                                         *)
(* Spec and FairSpec are runs of solve().  ParseSpec, TseitinSpec and      *)
(* ResolveSpec are single calls of parse_dimacs_cnf, of                    *)
(* TseitinEncoder::encode and of resolve on arguments of their own.        *)
(***************************************************************************)
EXTENDS Integers, Sequences, FiniteSets

\* ------------------------------------------------------------------ bounds
\* The variable names: 1..NumVars stand for the strings "1".."NumVars" that
\* parse_dimacs_cnf makes.
NumVars == 3
\* Longest input clause (in literal occurrences; duplicates allowed).
MaxLen == 3
\* Most input clauses.
MaxClauses == 3
\* Most literal occurrences in the input formula.
MaxLits == 6
\* Most variables of an input formula of the fair specification.
FairMaxVars == 2
\* Most clauses solve() may learn before a run of the model is cut off.
MaxLearned == 3
\* Most lines of a DIMACS text given to parse_dimacs_cnf.
MaxLines == 2
\* Most tokens on a line of a DIMACS text.
MaxTokens == 3
\* Longest clause given to resolve when it is called on its own.
ResolveMaxLen == 2

VARIABLES
    clauses,        \* CdclSolver.formula.clauses
    variables,      \* CdclSolver.formula.variables
    assignments,    \* CdclSolver.assignments.assignments (the trail)
    dl,             \* CdclSolver.assignments.dl
    sat,            \* CdclSolver.sat
    pc,             \* position of solve()
    finished,       \* unit_propagation: local `finished`
    idx,            \* unit_propagation: position of the for loop in clauses
    conflict,       \* solve(): `clause`, the Option<Clause> unit_propagation returned
    current_clause, \* conflict_analysis: local `current_clause`
    literals,       \* conflict_analysis: local `literals`
    b,              \* solve(): `b`, the level conflict_analysis returned
    learnt_clause,  \* solve(): `learnt_clause`, the Option<Clause> it returned
    nInput,         \* number of clauses at construction (clauses[1..nInput] is the input)
    call,           \* a function called on its own: the arguments of the call
    result,         \* a function called on its own: what the call returned
    iterations      \* conflict_analysis: iterations of its while loop so far
                    \* (a counter of the model, not a variable of the program)

vars == <<clauses, variables, assignments, dl, sat, pc, finished, idx, conflict,
          current_clause, literals, b, learnt_clause, nInput, call, result,
          iterations>>

\* ------------------------------------------------------------- value types
Vars == 1..NumVars

Literal(v, n) == [value |-> v, negation |-> n]

Literals == {Literal(v, n) : v \in Vars, n \in BOOLEAN}

None == <<>>

Some(x) == <<x>>

\* Mutant of FormulaVariables: only the first literal of each clause is read.
FormulaVariables_first_literal(cls) ==
    {cls[i][1].value : i \in {k \in 1..Len(cls) : cls[k] # <<>>}}

\* Formula::new: the variables are those of the clauses' literals.
FormulaVariables(cls) ==
    UNION {{cls[i][j].value : j \in 1..Len(cls[i])} : i \in 1..Len(cls)}

\* ---------------------------------------------------------------- the trail
\* Assignment::new
Assignment(value, antecedent, level) ==
    [value |-> value, antecedent |-> antecedent, dl |-> level]

\* Assignments::assign: HashMap::insert of a record at the current level.
assign(a, dlv, variable, value, antecedent) ==
    [x \in DOMAIN a \cup {variable} |->
        IF x = variable THEN Assignment(value, antecedent, dlv) ELSE a[x]]

\* Assignments::remove
remove(a, variable) ==
    [x \in DOMAIN a \ {variable} |-> a[x]]

\* The empty HashMap of Assignments::new.
EmptyAssignments == [x \in {} |-> Assignment(FALSE, None, 0)]

\* --------------------------------------------------------- clause evaluator
\* clause_status: `false_count`, counted per literal occurrence.
false_count(a, c) ==
    Cardinality({j \in 1..Len(c) :
        c[j].value \in DOMAIN a /\ a[c[j].value].value = c[j].negation})

\* clause_status: `true_count`, counted per literal occurrence.
true_count(a, c) ==
    Cardinality({j \in 1..Len(c) :
        c[j].value \in DOMAIN a /\ a[c[j].value].value # c[j].negation})

\* Mutant of clause_status: the polarity test of the two counts is inverted.
clause_status_inverted(a, c) ==
    IF false_count(a, c) > 0 THEN "Satisfied"
    ELSE IF true_count(a, c) = Len(c) THEN "Unsatisfied"
    ELSE IF true_count(a, c) = Len(c) - 1 THEN "Unit"
    ELSE "Unresolved"

\* Mutant of clause_status: a clause without literals is never Unsatisfied.
clause_status_empty_unresolved(a, c) ==
    IF true_count(a, c) > 0 THEN "Satisfied"
    ELSE IF Len(c) > 0 /\ false_count(a, c) = Len(c) THEN "Unsatisfied"
    ELSE IF false_count(a, c) = Len(c) - 1 THEN "Unit"
    ELSE "Unresolved"

clause_status(a, c) ==
    IF true_count(a, c) > 0 THEN "Satisfied"
    ELSE IF false_count(a, c) = Len(c) THEN "Unsatisfied"
    ELSE IF false_count(a, c) = Len(c) - 1 THEN "Unit"
    ELSE "Unresolved"

\* Mutant of unit_literal: the first literal of the clause, assigned or not.
unit_literal_first(a, c) ==
    IF c = <<>> THEN None ELSE Some(c[1])

\* unit_propagation, lines 166-175: the first literal whose variable has no
\* trail entry, as an Option.
unit_literal(a, c) ==
    LET free == {j \in 1..Len(c) : c[j].value \notin DOMAIN a}
    IN  IF free = {} THEN None
        ELSE Some(c[CHOOSE j \in free : \A k \in free : j <= k])

\* --------------------------------------------------------- unit propagation
\* The state of one call of unit_propagation: the trail `a`, the position `i`
\* of the for loop (0: at the head of the while loop), `finished`, and what
\* the call returned (`ret` = "running" until it returns).
UPEnter(a) ==
    [a |-> a, i |-> 0, finished |-> FALSE, ret |-> "running", clause |-> None]

\* Mutant of UPStep: a Unit clause does not reset `finished`, so the scan is
\* not repeated after an assignment.
UPStep_NoRescan(cls, dlv, s) ==
    IF s.i = 0
    THEN IF s.finished
         THEN [s EXCEPT !.ret = "Unresolved"]
         ELSE [s EXCEPT !.finished = TRUE,
                        !.i = IF Len(cls) = 0 THEN 0 ELSE 1]
    ELSE LET c == cls[s.i]
             next == IF s.i = Len(cls) THEN 0 ELSE s.i + 1
             status == clause_status(s.a, c)
             u == unit_literal(s.a, c)
         IN  IF status = "Unsatisfied"
             THEN [s EXCEPT !.ret = "Conflict", !.clause = Some(c)]
             ELSE IF status = "Unit" /\ u # None
             THEN [s EXCEPT !.i = next,
                            !.a = assign(s.a, dlv, u[1].value,
                                         ~u[1].negation, Some(c))]
             ELSE [s EXCEPT !.i = next]

\* One step of unit_propagation: the test of the while loop, or the body of
\* the for loop for clause cls[s.i].
UPStep(cls, dlv, s) ==
    IF s.i = 0
    THEN IF s.finished
         THEN [s EXCEPT !.ret = "Unresolved"]
         ELSE [s EXCEPT !.finished = TRUE,
                        !.i = IF Len(cls) = 0 THEN 0 ELSE 1]
    ELSE LET c == cls[s.i]
             next == IF s.i = Len(cls) THEN 0 ELSE s.i + 1
             status == clause_status(s.a, c)
             u == unit_literal(s.a, c)
         IN  IF status = "Unsatisfied"
             THEN [s EXCEPT !.ret = "Conflict", !.clause = Some(c)]
             ELSE IF status = "Unit"
             THEN IF u = None
                  THEN [s EXCEPT !.finished = FALSE, !.i = next]
                  ELSE [s EXCEPT !.finished = FALSE, !.i = next,
                                 !.a = assign(s.a, dlv, u[1].value,
                                              ~u[1].negation, Some(c))]
             ELSE [s EXCEPT !.i = next]

RECURSIVE UPRun(_, _, _)
UPRun(cls, dlv, s) ==
    IF s.ret # "running" THEN s ELSE UPRun(cls, dlv, UPStep(cls, dlv, s))

\* A whole call of unit_propagation from trail a: its return value and trail.
unit_propagation(cls, dlv, a) == UPRun(cls, dlv, UPEnter(a))

\* ------------------------------------------------------------------ driver
\* Mutant of all_variables_assigned: the trail is compared with the number of
\* clauses.
all_variables_assigned_counts_clauses(a, vs) ==
    Cardinality(DOMAIN a) = Len(clauses)

all_variables_assigned(a, vs) ==
    Cardinality(DOMAIN a) = Cardinality(vs)

\* pick_branching_variable: the (variable, polarity) pairs it can return.
pick_branching_variable(a, vs) ==
    (vs \ DOMAIN a) \X BOOLEAN

\* backtrack, lines 228-231: the collected variables are removed one by one.
RECURSIVE RemoveAll(_, _)
RemoveAll(a, to_remove) ==
    IF to_remove = {} THEN a
    ELSE LET variable == CHOOSE v \in to_remove : TRUE
         IN  RemoveAll(remove(a, variable), to_remove \ {variable})

\* Mutant of backtrack: the entries one level above `level` are kept.
backtrack_keeps_next_level(a, level) ==
    RemoveAll(a, {variable \in DOMAIN a : a[variable].dl > level + 1})

\* Mutant of backtrack: the entries at `level` itself are removed too.
backtrack_removes_level(a, level) ==
    RemoveAll(a, {variable \in DOMAIN a : a[variable].dl >= level})

\* backtrack: the variables whose entry has dl > level are collected
\* (lines 222-227) and then removed.
backtrack(a, level) ==
    RemoveAll(a, {variable \in DOMAIN a : a[variable].dl > level})

add_learned_clause(cls, c) == Append(cls, c)

\* -------------------------------------------------------- conflict analysis
\* The Vec<Literal> orders a HashSet<Literal> can be collected into: the
\* iteration order of a HashSet is unspecified.
Orderings(S) ==
    {f \in [1..Cardinality(S) -> S] : \A i, j \in 1..Cardinality(S) : f[i] = f[j] => i = j}

\* Mutant of resolve: the literals of the second clause are not added.
resolve_first_only(ca, cb, x) ==
    Orderings({ca[j] : j \in 1..Len(ca)} \ {Literal(x, TRUE), Literal(x, FALSE)})

\* Mutant of resolve: the literals of the pivot variable stay.
resolve_keeps_pivot(ca, cb, x) ==
    Orderings({ca[j] : j \in 1..Len(ca)} \cup {cb[j] : j \in 1..Len(cb)})

\* Mutant of resolve: only the negated literal of the pivot is removed.
resolve_one_polarity(ca, cb, x) ==
    Orderings(({ca[j] : j \in 1..Len(ca)} \cup {cb[j] : j \in 1..Len(cb)})
              \ {Literal(x, TRUE)})

\* resolve: the clauses it can return (one per iteration order of `result`).
resolve(ca, cb, x) ==
    Orderings(({ca[j] : j \in 1..Len(ca)} \cup {cb[j] : j \in 1..Len(cb)})
              \ {Literal(x, TRUE), Literal(x, FALSE)})

\* Every literal of c has a trail entry: no `get(..).unwrap()` on c panics.
AllAssigned(a, c) == \A j \in 1..Len(c) : c[j].value \in DOMAIN a

\* conflict_analysis, lines 248-253 and 277-284: the literals of c at level dlv
\* (Iterator::filter keeps the order of c).
LevelLiterals(a, dlv, c) ==
    LET AtLevel(l) == a[l.value].dl = dlv IN SelectSeq(c, AtLevel)

\* conflict_analysis, lines 256-265: the literals whose entry has an antecedent.
WithAntecedent(a, ls) ==
    LET IsSome(l) == a[l.value].antecedent # None IN SelectSeq(ls, IsSome)

\* conflict_analysis, lines 291-297: the distinct levels of c's literals.
decision_levels(a, c) == {a[c[j].value].dl : j \in 1..Len(c)}

Max(S) == CHOOSE x \in S : \A y \in S : y <= x

\* Mutant of BacktrackLevel: the largest level, not the second largest.
BacktrackLevel_largest(a, c) ==
    LET D == decision_levels(a, c)
    IN  IF Cardinality(D) <= 1 THEN 0 ELSE Max(D)

\* conflict_analysis, lines 299-308: 0 for at most one level, else the second
\* largest.
BacktrackLevel(a, c) ==
    LET D == decision_levels(a, c)
    IN  IF Cardinality(D) <= 1 THEN 0 ELSE Max(D \ {Max(D)})

\* ----------------------------------------------------------------- inputs
RECURSIVE Sum(_)
Sum(sh) == IF sh = <<>> THEN 0 ELSE Head(sh) + Sum(Tail(sh))

\* The shapes of the input formulas: the lengths of the clauses, at most
\* MaxClauses clauses of at most MaxLen literals, MaxLits literals in all.
Shapes ==
    {sh \in UNION {[1..n -> 0..MaxLen] : n \in 0..MaxClauses} : Sum(sh) <= MaxLits}

\* The formula of shape sh whose literal occurrences, in reading order, are
\* flat.
Split(flat, sh) ==
    [i \in 1..Len(sh) |->
        SubSeq(flat, Sum(SubSeq(sh, 1, i - 1)) + 1, Sum(SubSeq(sh, 1, i)))]

\* Variable names are opaque to the solver and it treats the two polarities
\* alike, so one formula of each class under renaming and flipping is taken:
\* variables are numbered in the order of their first occurrence, and the
\* first occurrence of each is positive.
Canonical(flat) ==
    \A j \in 1..Len(flat) :
        LET earlier == {flat[k].value : k \in 1..(j - 1)}
        IN  flat[j].value \notin earlier =>
                /\ ~flat[j].negation
                /\ flat[j].value = Cardinality(earlier) + 1

\* The input formulas: duplicate literals, tautologies, empty clauses and
\* repeated clauses included.
FormulaSet ==
    UNION {{Split(flat, sh) : flat \in {f \in [1..Sum(sh) -> Literals] : Canonical(f)}} :
           sh \in Shapes}

\* CdclSolver::new on Formula::new(input); solve() is about to run its first
\* unit_propagation.
Init ==
    /\ clauses \in FormulaSet
    /\ variables = FormulaVariables(clauses)
    /\ nInput = Len(clauses)
    /\ assignments = EmptyAssignments
    /\ dl = 0
    /\ sat = "Unresolved"
    /\ pc = "first_propagation"
    /\ finished = FALSE
    /\ idx = 0
    /\ conflict = None
    /\ current_clause = <<>>
    /\ literals = <<>>
    /\ b = 0
    /\ learnt_clause = None
    /\ call = <<>>
    /\ result = <<>>
    /\ iterations = 0

\* ----------------------------------------------------------------- actions
InPropagation == pc \in {"first_propagation", "propagation"}

\* One step of the unit_propagation call in progress (line 94 or line 107).
\* On return: a conflict of the first call ends solve() (lines 95-97), a
\* conflict of a later call goes to conflict_analysis (line 112), and
\* Unresolved goes to the test of the while loop (line 99, lines 108-110).
UnitPropagationStep ==
    /\ InPropagation
    /\ LET s == UPStep(clauses, dl, [a |-> assignments, i |-> idx,
                                      finished |-> finished, ret |-> "running",
                                      clause |-> None])
       IN  /\ assignments' = s.a
           /\ idx' = s.i
           /\ finished' = s.finished
           /\ conflict' = IF s.ret = "running" THEN conflict ELSE s.clause
           /\ pc' = IF s.ret = "running" THEN pc
                    ELSE IF s.ret = "Unresolved" THEN "while"
                    ELSE IF pc = "first_propagation" THEN "done"
                    ELSE "conflict_analysis"
    /\ UNCHANGED <<clauses, variables, dl, sat, current_clause, literals, b,
                   learnt_clause, nInput, call, result, iterations>>

\* Line 99 and line 125: the test of the while loop; when every variable is
\* assigned solve() sets sat and returns.
WhileTest ==
    /\ pc = "while"
    /\ IF all_variables_assigned(assignments, variables)
       THEN sat' = "Satisfied" /\ pc' = "done"
       ELSE sat' = sat /\ pc' = "decide"
    /\ UNCHANGED <<clauses, variables, assignments, dl, finished, idx, conflict,
                   current_clause, literals, b, learnt_clause, nInput,
                   call, result, iterations>>

\* Lines 100-107: pick, raise the level, assign the decision, and enter
\* unit_propagation.  With no unassigned variable the unwrap of the choice
\* (line 216) panics.
Decide ==
    /\ pc = "decide"
    /\ IF pick_branching_variable(assignments, variables) = {}
       THEN /\ pc' = "panic"
            /\ UNCHANGED <<assignments, dl, finished, idx>>
       ELSE /\ \E pick \in pick_branching_variable(assignments, variables) :
                  /\ dl' = dl + 1
                  /\ assignments' = assign(assignments, dl + 1, pick[1], pick[2], None)
            /\ pc' = "propagation"
            /\ finished' = FALSE
            /\ idx' = 0
    /\ UNCHANGED <<clauses, variables, sat, conflict, current_clause, literals,
                   b, learnt_clause, nInput, call, result, iterations>>

\* conflict_analysis, lines 243-253: at level 0 it returns (-1, None); else
\* it starts from the conflict clause.  An unwrap of a missing trail entry
\* panics.
AnalysisStart ==
    /\ pc = "conflict_analysis"
    /\ IF dl = 0
       THEN /\ b' = -1
            /\ learnt_clause' = None
            /\ pc' = "analysed"
            /\ UNCHANGED <<current_clause, literals>>
       ELSE IF ~AllAssigned(assignments, conflict[1])
       THEN /\ pc' = "panic"
            /\ UNCHANGED <<current_clause, literals, b, learnt_clause>>
       ELSE /\ current_clause' = conflict[1]
            /\ literals' = LevelLiterals(assignments, dl, conflict[1])
            /\ pc' = "resolution"
            /\ UNCHANGED <<b, learnt_clause>>
    /\ iterations' = 0
    /\ UNCHANGED <<clauses, variables, assignments, dl, sat, finished, idx,
                   conflict, nInput, call, result>>

\* conflict_analysis, lines 255-289: one iteration of the while loop that
\* resolves on the first current-level literal with an antecedent.
AnalysisResolve ==
    /\ pc = "resolution"
    /\ Len(literals) # 1
    /\ WithAntecedent(assignments, literals) # <<>>
    /\ LET literal == Head(WithAntecedent(assignments, literals))
           antecedent == assignments[literal.value].antecedent[1]
       IN  \E r \in resolve(current_clause, antecedent, literal.value) :
              IF AllAssigned(assignments, r)
              THEN /\ current_clause' = r
                   /\ literals' = LevelLiterals(assignments, dl, r)
                   /\ pc' = pc
              ELSE /\ current_clause' = r
                   /\ literals' = literals
                   /\ pc' = "panic"
    /\ iterations' = iterations + 1
    /\ UNCHANGED <<clauses, variables, assignments, dl, sat, finished, idx,
                   conflict, b, learnt_clause, nInput, call, result>>

\* conflict_analysis, lines 255, 285-288 and 291-308: the loop ends (one
\* current-level literal, or none with an antecedent) and the level and the
\* clause are returned.
AnalysisReturn ==
    /\ pc = "resolution"
    /\ Len(literals) = 1 \/ WithAntecedent(assignments, literals) = <<>>
    /\ b' = BacktrackLevel(assignments, current_clause)
    /\ learnt_clause' = Some(current_clause)
    /\ pc' = "analysed"
    /\ iterations' = 0
    /\ UNCHANGED <<clauses, variables, assignments, dl, sat, finished, idx,
                   conflict, current_clause, literals, nInput, call, result>>

\* Lines 113-115: a negative level ends solve() with sat left Unresolved.
ReturnUnsat ==
    /\ pc = "analysed"
    /\ b < 0
    /\ pc' = "done"
    /\ UNCHANGED <<clauses, variables, assignments, dl, sat, finished, idx,
                   conflict, current_clause, literals, b, learnt_clause, nInput,
                   call, result, iterations>>

\* Lines 117-119: the learned clause is appended to the database.  A run of
\* the model learns at most MaxLearned clauses.
Learn ==
    /\ pc = "analysed"
    /\ ~(b < 0)
    /\ Len(clauses) - nInput < MaxLearned
    /\ clauses' = IF learnt_clause # None
                  THEN add_learned_clause(clauses, learnt_clause[1])
                  ELSE clauses
    /\ pc' = "backtrack"
    /\ UNCHANGED <<variables, assignments, dl, sat, finished, idx, conflict,
                   current_clause, literals, b, learnt_clause, nInput,
                   call, result, iterations>>

\* Line 120: backtrack(b).
Backtrack ==
    /\ pc = "backtrack"
    /\ assignments' = backtrack(assignments, b)
    /\ pc' = "set_level"
    /\ UNCHANGED <<clauses, variables, dl, sat, finished, idx, conflict,
                   current_clause, literals, b, learnt_clause, nInput,
                   call, result, iterations>>

\* Lines 121 and 106-107: the level is reset and the inner loop calls
\* unit_propagation again.
SetLevel ==
    /\ pc = "set_level"
    /\ dl' = b
    /\ pc' = "propagation"
    /\ finished' = FALSE
    /\ idx' = 0
    /\ UNCHANGED <<clauses, variables, assignments, sat, conflict,
                   current_clause, literals, b, learnt_clause, nInput,
                   call, result, iterations>>

Next ==
    \/ UnitPropagationStep
    \/ WhileTest
    \/ Decide
    \/ AnalysisStart
    \/ AnalysisResolve
    \/ AnalysisReturn
    \/ ReturnUnsat
    \/ Learn
    \/ Backtrack
    \/ SetLevel

Spec == Init /\ [][Next]_vars

\* ------------------------------------------------ the driver under fairness
\* A clause pushed directly behind an identical clause never acts: the for
\* loop of unit_propagation visits it under the trail its twin left, where it
\* is Satisfied (twin Satisfied or Unit) or Unresolved (twin Unresolved), and
\* is not reached when the twin is Unsatisfied; nothing else reads the
\* database.  So a database that stores such a run of twins once behaves as
\* the one that stores each push, and lets a run of solve() that learns the
\* same clause again and again revisit a state.
TwinIsInert ==
    (InPropagation /\ idx > 1 /\ clauses[idx] = clauses[idx - 1]) =>
        clause_status(assignments, clauses[idx]) \in {"Satisfied", "Unresolved"}

\* The run of the model is cut off: the next push would exceed MaxLearned.
CutOff ==
    /\ pc = "analysed"
    /\ ~(b < 0)
    /\ Len(clauses) - nInput >= MaxLearned
    /\ clauses[Len(clauses)] # learnt_clause[1]

\* Lines 117-119, with a push behind an identical last clause stored once.
LearnTwinsOnce ==
    /\ pc = "analysed"
    /\ ~(b < 0)
    /\ IF clauses # <<>> /\ clauses[Len(clauses)] = learnt_clause[1]
       THEN clauses' = clauses
       ELSE /\ Len(clauses) - nInput < MaxLearned
            /\ clauses' = add_learned_clause(clauses, learnt_clause[1])
    /\ pc' = "backtrack"
    /\ UNCHANGED <<variables, assignments, dl, sat, finished, idx, conflict,
                   current_clause, literals, b, learnt_clause, nInput,
                   call, result, iterations>>

NextTwinsOnce ==
    \/ UnitPropagationStep
    \/ WhileTest
    \/ Decide
    \/ AnalysisStart
    \/ AnalysisResolve
    \/ AnalysisReturn
    \/ ReturnUnsat
    \/ LearnTwinsOnce
    \/ Backtrack
    \/ SetLevel

\* The inputs of the fair specification.
FairInit ==
    /\ Init
    /\ Cardinality(variables) <= FairMaxVars

\* solve() is sequential code: whenever it has a next step it takes it.
FairSpec == FairInit /\ [][NextTwinsOnce]_vars /\ WF_vars(NextTwinsOnce)

\* ------------------------------------------------------------- DIMACS reader
\* The least i32, i32::MIN = -2^31.
MinI32 == -2147483647 - 1

\* A whitespace-delimited token of a line: the word "p", "c" or "x" (a word
\* that is no number), or, with word "int", the decimal text of the i32 n.
Token(word, n) == [word |-> word, n |-> n]

\* str::parse::<i32>: Ok(n) for the decimal text of an i32, Err otherwise.
parse_i32(tok) == IF tok.word = "int" THEN Some(tok.n) ELSE None

\* i32::abs: -i32::MIN is not an i32; the call panics in a build with overflow
\* checks (None) and returns i32::MIN in a build without them.
abs(lit, overflow_checks) ==
    IF lit = MinI32 THEN (IF overflow_checks THEN None ELSE Some(MinI32))
    ELSE IF lit < 0 THEN Some(-lit)
    ELSE Some(lit)

\* parse_dimacs_cnf, lines 20-33: the body of the loop over the tokens of a
\* line, on st = [clauses, panic].  A variable name is the integer whose
\* decimal text the code makes with to_string().
ParseToken(st, tok, overflow_checks) ==
    LET lit == parse_i32(tok)
    IN  IF st.panic \/ lit = None THEN st
        ELSE IF lit[1] = 0
        THEN [st EXCEPT !.clauses = Append(@, <<>>)]
        ELSE LET var == abs(lit[1], overflow_checks)
                 neg == lit[1] < 0
             IN  IF var = None THEN [st EXCEPT !.panic = TRUE]
                 ELSE [st EXCEPT !.clauses[Len(st.clauses)] =
                                     Append(@, Literal(var[1], neg))]

RECURSIVE ParseTokens(_, _, _)
ParseTokens(st, tokens, overflow_checks) ==
    IF tokens = <<>> THEN st
    ELSE ParseTokens(ParseToken(st, Head(tokens), overflow_checks),
                     Tail(tokens), overflow_checks)

\* parse_dimacs_cnf, lines 17-35: the loop over the lines; a line without
\* tokens or whose first token is p or c is passed over.
RECURSIVE ParseLines(_, _, _)
ParseLines(st, lines, overflow_checks) ==
    IF lines = <<>> THEN st
    ELSE LET tokens == Head(lines)
             after == IF tokens # <<>> /\ tokens[1].word # "p" /\ tokens[1].word # "c"
                      THEN ParseTokens(st, tokens, overflow_checks)
                      ELSE st
         IN  ParseLines(after, Tail(lines), overflow_checks)

\* parse_dimacs_cnf: the clause vector starts as one empty clause, a last
\* clause without literals is popped, and Formula::new collects the variables.
parse_dimacs_cnf(content, overflow_checks) ==
    LET st == ParseLines([clauses |-> <<<<>>>>, panic |-> FALSE], content,
                         overflow_checks)
        n == Len(st.clauses)
        kept == IF st.clauses[n] = <<>> THEN SubSeq(st.clauses, 1, n - 1)
                ELSE st.clauses
    IN  IF st.panic THEN [panic |-> TRUE, clauses |-> <<>>, variables |-> {}]
        ELSE [panic |-> FALSE, clauses |-> kept,
              variables |-> FormulaVariables(kept)]

\* The tokens of the DIMACS texts: three words, the least i32 and small
\* numbers of both signs.
Tokens ==
    {Token(w, 0) : w \in {"p", "c", "x"}}
        \cup {Token("int", n) : n \in {MinI32, -1, 0, 1, 2}}

\* The DIMACS texts: at most MaxLines lines of at most MaxTokens tokens.
ContentSet ==
    LET Lines == UNION {[1..n -> Tokens] : n \in 0..MaxTokens}
    IN  UNION {[1..n -> Lines] : n \in 0..MaxLines}

\* The solver part of the state while a function is called on its own.
NoSolver ==
    /\ clauses = <<>>
    /\ variables = {}
    /\ nInput = 0
    /\ assignments = EmptyAssignments
    /\ dl = 0
    /\ sat = "Unresolved"
    /\ finished = FALSE
    /\ idx = 0
    /\ conflict = None
    /\ current_clause = <<>>
    /\ literals = <<>>
    /\ b = 0
    /\ learnt_clause = None
    /\ iterations = 0

\* main, line 62, is about to call parse_dimacs_cnf on the text of the file,
\* in a build with or without overflow checks.
ParseInit ==
    /\ NoSolver
    /\ pc = "parse_dimacs_cnf"
    /\ call \in [content : ContentSet, overflow_checks : BOOLEAN]
    /\ result = <<>>

\* The call of parse_dimacs_cnf.
ParseDimacsCnf ==
    /\ pc = "parse_dimacs_cnf"
    /\ result' = parse_dimacs_cnf(call.content, call.overflow_checks)
    /\ pc' = "parsed"
    /\ UNCHANGED <<clauses, variables, assignments, dl, sat, finished, idx,
                   conflict, current_clause, literals, b, learnt_clause,
                   nInput, call, iterations>>

ParseSpec == ParseInit /\ [][ParseDimacsCnf]_vars

\* ---------------------------------------------------------- Tseitin encoder
\* A String is the sequence of its chars.  The three operator chars are not
\* ASCII: "~" stands for the negation sign U+00AC, "&" for the conjunction
\* sign U+2227 and "|" for the disjunction sign U+2228.
NotChar == "~"

AndChar == "&"

OrChar == "|"

\* The length of a char in UTF-8, the encoding of a String.
len_utf8(ch) ==
    IF ch = NotChar THEN 2 ELSE IF ch \in {AndChar, OrChar} THEN 3 ELSE 1

\* The decimal text of a natural number (to_string, format!("{}", n)).
RECURSIVE Decimal(_)
Decimal(n) ==
    LET digits == <<"0", "1", "2", "3", "4", "5", "6", "7", "8", "9">>
    IN  IF n < 10 THEN <<digits[n + 1]>>
        ELSE Decimal(n \div 10) \o <<digits[(n % 10) + 1]>>

\* Literal::negate
negate(l) == Literal(l.value, ~l.negation)

\* Literal::to_string; the variable name k of the solver model is the String
\* with the decimal text of k.
literal_to_string(l) ==
    IF l.negation THEN <<NotChar>> \o Decimal(l.value) ELSE Decimal(l.value)

\* Clause::to_string: the literals joined by " | ".
RECURSIVE clause_to_string(_)
clause_to_string(c) ==
    IF c = <<>> THEN <<>>
    ELSE IF Len(c) = 1 THEN literal_to_string(c[1])
    ELSE literal_to_string(c[1]) \o <<" ", OrChar, " ">> \o clause_to_string(Tail(c))

\* Formula::to_string: the clauses joined by " & ".
RECURSIVE formula_to_string(_)
formula_to_string(cls) ==
    IF cls = <<>> THEN <<>>
    ELSE IF Len(cls) = 1 THEN clause_to_string(cls[1])
    ELSE clause_to_string(cls[1]) \o <<" ", AndChar, " ">>
             \o formula_to_string(Tail(cls))

\* str::contains(char)
str_contains(text, ch) == \E k \in 1..Len(text) : text[k] = ch

\* str::starts_with(char)
str_starts_with(text, ch) == text # <<>> /\ text[1] = ch

\* str::trim: the text without its leading and trailing spaces.
RECURSIVE str_trim(_)
str_trim(text) ==
    IF text = <<>> THEN text
    ELSE IF text[1] = " " THEN str_trim(Tail(text))
    ELSE IF text[Len(text)] = " " THEN str_trim(SubSeq(text, 1, Len(text) - 1))
    ELSE text

\* str::split(char): the parts of the text between the occurrences of ch.
RECURSIVE str_split(_, _)
str_split(text, ch) ==
    IF ~str_contains(text, ch) THEN <<text>>
    ELSE LET k == CHOOSE i \in 1..Len(text) :
                      text[i] = ch /\ \A j \in 1..(i - 1) : text[j] # ch
         IN  <<SubSeq(text, 1, k - 1)>> \o str_split(SubSeq(text, k + 1, Len(text)), ch)

\* subformula.split(ch).map(|s| s.trim()).collect()
Parts(text, ch) ==
    LET split == str_split(text, ch)
    IN  [k \in 1..Len(split) |-> str_trim(split[k])]

\* The slice text[1..]: byte offset 1 must be a char boundary, or the slice
\* panics (None).
str_from_byte_1(text) ==
    IF text # <<>> /\ len_utf8(text[1]) = 1 THEN Some(Tail(text)) ELSE None

\* TseitinEncoder::new, with the clause vector that encode() passes along and
\* whether a panic has ended the call.
NewEncoder ==
    [variable_counter |-> 0,
     variable_map |-> [text \in {} |-> <<>>],
     clauses |-> <<>>,
     panic |-> FALSE]

\* TseitinEncoder::new_variable: the name made from the counter after its
\* increment.
new_variable(counter) == <<"t", "_">> \o Decimal(counter)

\* HashMap::insert
map_insert(m, key, value) ==
    [k \in DOMAIN m \cup {key} |-> IF k = key THEN value ELSE m[k]]

\* TseitinEncoder::encode_recursive on encoder state enc: the state after the
\* call and the variable it returned.
RECURSIVE encode_recursive(_, _)
encode_recursive(enc, subformula) ==
    IF enc.panic THEN [enc |-> enc, var |-> <<>>]
    ELSE IF subformula \in DOMAIN enc.variable_map
    THEN [enc |-> enc, var |-> enc.variable_map[subformula]]
    ELSE
    LET var == new_variable(enc.variable_counter + 1)
        e1 == [enc EXCEPT !.variable_counter = @ + 1,
                          !.variable_map = map_insert(@, subformula, var)]
    IN  IF ~str_contains(subformula, AndChar) /\ ~str_contains(subformula, OrChar)
        THEN LET negated == str_starts_with(subformula, NotChar)
                 name == IF negated THEN str_from_byte_1(subformula)
                         ELSE Some(subformula)
             IN  IF name = None
                 THEN [enc |-> [e1 EXCEPT !.panic = TRUE], var |-> var]
                 ELSE LET literal == Literal(name[1], FALSE)
                      IN  [enc |-> [e1 EXCEPT !.clauses = @ \o
                                       <<<<Literal(var, TRUE), literal>>,
                                         <<Literal(var, FALSE), negate(literal)>>>>],
                           var |-> var]
        ELSE IF str_contains(subformula, AndChar)
        THEN LET parts == Parts(subformula, AndChar)
                 left == encode_recursive(e1, parts[1])
                 right == encode_recursive(left.enc, parts[2])
             IN  [enc |-> [right.enc EXCEPT !.clauses = @ \o
                              <<<<Literal(var, TRUE), Literal(left.var, FALSE)>>,
                                <<Literal(var, TRUE), Literal(right.var, FALSE)>>,
                                <<Literal(var, FALSE), Literal(left.var, TRUE),
                                  Literal(right.var, TRUE)>>>>],
                  var |-> var]
        ELSE LET parts == Parts(subformula, OrChar)
                 left == encode_recursive(e1, parts[1])
                 right == encode_recursive(left.enc, parts[2])
             IN  [enc |-> [right.enc EXCEPT !.clauses = @ \o
                              <<<<Literal(var, FALSE), Literal(left.var, TRUE)>>,
                                <<Literal(var, FALSE), Literal(right.var, TRUE)>>,
                                <<Literal(var, TRUE), Literal(left.var, FALSE),
                                  Literal(right.var, FALSE)>>>>],
                  var |-> var]

\* TseitinEncoder::encode on a new encoder: the formula returned (its
\* clauses and variables) and the encoder's variable_map, or a panic.
encode(cls) ==
    LET root == encode_recursive(NewEncoder, formula_to_string(cls))
        out == Append(root.enc.clauses, <<Literal(root.var, FALSE)>>)
    IN  IF root.enc.panic
        THEN [panic |-> TRUE, clauses |-> <<>>, variables |-> {},
              variable_map |-> root.enc.variable_map]
        ELSE [panic |-> FALSE, clauses |-> out,
              variables |-> FormulaVariables(out),
              variable_map |-> root.enc.variable_map]

\* A new TseitinEncoder is about to encode a formula.
TseitinInit ==
    /\ clauses \in FormulaSet
    /\ variables = FormulaVariables(clauses)
    /\ nInput = Len(clauses)
    /\ assignments = EmptyAssignments
    /\ dl = 0
    /\ sat = "Unresolved"
    /\ finished = FALSE
    /\ idx = 0
    /\ conflict = None
    /\ current_clause = <<>>
    /\ literals = <<>>
    /\ b = 0
    /\ learnt_clause = None
    /\ pc = "encode"
    /\ call = <<>>
    /\ result = <<>>
    /\ iterations = 0

\* The call of TseitinEncoder::encode.
Encode ==
    /\ pc = "encode"
    /\ result' = encode(clauses)
    /\ pc' = "encoded"
    /\ UNCHANGED <<clauses, variables, assignments, dl, sat, finished, idx,
                   conflict, current_clause, literals, b, learnt_clause,
                   nInput, call, iterations>>

TseitinSpec == TseitinInit /\ [][Encode]_vars

\* ------------------------------------------------------ resolve on its own
\* resolve is about to be called on two clauses and a variable name: any
\* clauses, with repeated literals, with both polarities of a variable, with
\* or without the variable.
ResolveInit ==
    /\ NoSolver
    /\ pc = "resolve"
    /\ LET Clauses == UNION {[1..n -> Literals] : n \in 0..ResolveMaxLen}
       IN  call \in [a : Clauses, b : Clauses, x : Vars]
    /\ result = <<>>

\* The call of resolve.
Resolve ==
    /\ pc = "resolve"
    /\ result' \in resolve(call.a, call.b, call.x)
    /\ pc' = "resolved"
    /\ UNCHANGED <<clauses, variables, assignments, dl, sat, finished, idx,
                   conflict, current_clause, literals, b, learnt_clause,
                   nInput, call, iterations>>

ResolveSpec == ResolveInit /\ [][Resolve]_vars

\* ------------------------------------------------------------------ claims
\* Literal l is true under trail a.
IsTrue(a, l) == l.value \in DOMAIN a /\ a[l.value].value # l.negation

\* Literal l is false under trail a.
IsFalse(a, l) == l.value \in DOMAIN a /\ a[l.value].value = l.negation

\* Brute force: some total assignment of the variables makes every input
\* clause true.
Satisfiable ==
    \E m \in [Vars -> BOOLEAN] :
        \A i \in 1..nInput : \E j \in 1..Len(clauses[i]) :
            m[clauses[i][j].value] # clauses[i][j].negation

\* C1: when solve() ends with sat = Satisfied, every variable of the formula
\* has a trail entry and every input clause has a literal true under the trail.
C1_SatisfiedIsModel ==
    (pc = "done" /\ sat = "Satisfied") =>
        /\ DOMAIN assignments = variables
        /\ \A i \in 1..nInput :
              \E j \in 1..Len(clauses[i]) : IsTrue(assignments, clauses[i][j])

\* C1 witness: a Satisfied verdict reached through a decision and a learned
\* clause, on an input of at least two clauses.
C1_Witness ==
    /\ pc = "done" /\ sat = "Satisfied"
    /\ nInput >= 2 /\ Len(clauses) > nInput /\ dl >= 1

\* C2: when solve() ends with sat left Unresolved (printed UNSAT), no total
\* assignment satisfies all input clauses.
C2_UnsatIsSound ==
    (pc = "done" /\ sat = "Unresolved") => ~Satisfiable

\* C2 witness: an UNSAT verdict returned by conflict_analysis at level 0
\* after at least one clause was learned.
C2_Witness ==
    /\ pc = "done" /\ sat = "Unresolved"
    /\ b < 0 /\ Len(clauses) > nInput

\* Number of literal occurrences of clause c whose variable is assigned at
\* level dlv.
OccurrencesAtLevel(a, dlv, c) ==
    Cardinality({j \in 1..Len(c) : c[j].value \in DOMAIN a /\ a[c[j].value].dl = dlv})

\* C5: the clause conflict_analysis returns at DL > 0 has exactly one literal
\* whose variable is assigned at level DL.
C5_OneLiteralAtLevel ==
    (pc = "analysed" /\ learnt_clause # None) =>
        OccurrencesAtLevel(assignments, dl, learnt_clause[1]) = 1

\* C6: every trail entry has 0 <= dl <= DL, in every state of solve().
C6_LevelsWithinDL ==
    \A v \in DOMAIN assignments :
        0 <= assignments[v].dl /\ assignments[v].dl <= dl

\* C6 witness: between backtrack(b) and the reset of the level, with entries
\* left on the trail and b below the current level.
C6_Witness ==
    /\ pc = "set_level"
    /\ DOMAIN assignments # {}
    /\ 0 < b /\ b < dl

\* C8: after unit_propagation returns Unresolved no clause of the database is
\* Unit or Unsatisfied; after it returns Conflict the returned clause is in the
\* database and all its literals are false.
C8_PropagationContract ==
    /\ pc = "while" =>
          \A i \in 1..Len(clauses) :
              clause_status(assignments, clauses[i]) \notin {"Unit", "Unsatisfied"}
    /\ (pc = "conflict_analysis" \/ (pc = "done" /\ sat = "Unresolved")) =>
          /\ conflict # None
          /\ \E i \in 1..Len(clauses) : clauses[i] = conflict[1]
          /\ \A j \in 1..Len(conflict[1]) : IsFalse(assignments, conflict[1][j])

\* C8 witness: both returns, each after propagation assigned something: a
\* fixpoint with a propagated entry, or a conflict on a non-empty clause.
C8_Witness ==
    \/ /\ pc = "while"
       /\ \E v \in DOMAIN assignments : assignments[v].antecedent # None
       /\ Len(clauses) >= 2
    \/ /\ pc = "conflict_analysis"
       /\ Len(conflict[1]) >= 2

\* C4: once the driver has appended the learned clause L, run backtrack(b)
\* and set DL to b, clause_status classifies L as Unit, and the unit
\* propagation that follows assigns L's unassigned literal at level b with
\* antecedent L.
C4_LearnedClauseAsserts ==
    [][pc = "set_level" =>
         LET L == learnt_clause[1]
             r == unit_propagation(clauses', dl', assignments')
         IN  /\ clause_status(assignments', L) = "Unit"
             /\ LET u == unit_literal(assignments', L)[1]
                IN  /\ u.value \in DOMAIN r.a
                    /\ r.a[u.value] = Assignment(~u.negation, Some(L), b)]_vars

\* C7: backtrack(b) leaves exactly the entries with dl <= b, each unchanged,
\* and changes neither the clause database nor the variable set.
C7_BacktrackFrame ==
    [][pc = "backtrack" =>
         /\ DOMAIN assignments' = {v \in DOMAIN assignments : assignments[v].dl <= b}
         /\ \A v \in DOMAIN assignments' :
               /\ assignments'[v] = assignments[v]
               /\ ~(assignments'[v].dl > b)
         /\ clauses' = clauses
         /\ variables' = variables]_vars

\* C7 witness: backtrack(b) has run, removed an entry of the conflict clause
\* and kept others.
C7_Witness ==
    /\ pc = "set_level"
    /\ DOMAIN assignments # {}
    /\ \E j \in 1..Len(conflict[1]) : conflict[1][j].value \notin DOMAIN assignments

\* C9 as claimed: after any return of unit_propagation, a second call with
\* no change in between leaves the trail as the first call left it.
C9_SecondCallSameTrail ==
    pc \in {"while", "conflict_analysis", "done"} =>
        unit_propagation(clauses, dl, assignments).a = assignments

\* C9 as amended: after unit_propagation returns Unresolved, a second call
\* with no change in between returns Unresolved and leaves the trail as it is.
C9_SecondCallAtFixpoint ==
    pc = "while" =>
        LET r == unit_propagation(clauses, dl, assignments)
        IN  r.ret = "Unresolved" /\ r.a = assignments

\* C9 witness: unit_propagation returned Unresolved above level 0 after it
\* propagated an assignment.
C9_Witness ==
    /\ pc = "while"
    /\ dl >= 1
    /\ \E v \in DOMAIN assignments :
          assignments[v].antecedent # None /\ assignments[v].dl = dl

\* C10: whenever a trail entry with an antecedent is written, the antecedent
\* had exactly one literal occurrence without a trail entry, on the entry's
\* variable; its other literals were false; the value makes that literal
\* true; and the entry's dl is the current DL.
C10_AntecedentWasUnit ==
    [][\A v \in DOMAIN assignments' :
          (/\ assignments'[v].antecedent # None
           /\ (v \notin DOMAIN assignments \/ assignments[v] # assignments'[v]))
          => LET c == assignments'[v].antecedent[1]
                 free == {j \in 1..Len(c) : c[j].value \notin DOMAIN assignments}
             IN  /\ Cardinality(free) = 1
                 /\ \A j \in free :
                       /\ c[j].value = v
                       /\ assignments'[v].value = ~c[j].negation
                 /\ \A j \in (1..Len(c)) \ free : IsFalse(assignments, c[j])
                 /\ assignments'[v].dl = dl]_vars

\* C10 witness: an entry propagated above level 0 from a clause of two
\* literals.
C10_Witness ==
    \E v \in DOMAIN assignments :
        /\ assignments[v].antecedent # None
        /\ Len(assignments[v].antecedent[1]) >= 2
        /\ assignments[v].dl >= 1

\* C3: every run of solve() ends (or, in the model, reaches the cut-off of
\* MaxLearned learned clauses): there is no infinite run of the driver loop.
C3_SolveTerminates ==
    <>(pc \in {"done", "panic"} \/ CutOff)

\* The input formula has a clause without literals.
HasEmptyClause == \E i \in 1..nInput : clauses[i] = <<>>

\* C11: when the input formula contains the empty clause (anywhere), the
\* first unit_propagation call of solve() returns Conflict and solve() ends
\* with sat left Unresolved (UNSAT) without a decision: DL stays 0.
C11_EmptyClauseIsUnsat ==
    HasEmptyClause =>
        /\ pc \in {"first_propagation", "done"}
        /\ dl = 0
        /\ sat = "Unresolved"
        /\ \A v \in DOMAIN assignments : assignments[v].antecedent # None
        /\ pc = "first_propagation" =>
              UPRun(clauses, dl, [a |-> assignments, i |-> idx,
                                  finished |-> finished, ret |-> "running",
                                  clause |-> None]).ret = "Conflict"
        /\ pc = "done" => conflict # None

\* C11 witness: solve() has ended on an input whose empty clause is not the
\* first one, after the first propagation assigned a variable and ran into
\* the empty clause.
C11_Witness ==
    /\ HasEmptyClause
    /\ pc = "done"
    /\ clauses[1] # <<>>
    /\ DOMAIN assignments # {}
    /\ conflict = Some(<<>>)

\* The tokens of the lines that parse_dimacs_cnf does not pass over, in
\* reading order.
RECURSIVE Contributing(_)
Contributing(lines) ==
    IF lines = <<>> THEN <<>>
    ELSE (IF Head(lines) # <<>> /\ Head(lines)[1].word \notin {"p", "c"}
          THEN Head(lines) ELSE <<>>) \o Contributing(Tail(lines))

\* The integers among the contributing tokens, in reading order.
Numbers(content) ==
    LET IsInt(tok) == tok.word = "int"
        ints == SelectSeq(Contributing(content), IsInt)
    IN  [k \in 1..Len(ints) |-> ints[k].n]

\* The position in nums of its i-th 0 (0 for i = 0).
ZeroAt(nums, i) ==
    IF i = 0 THEN 0
    ELSE CHOOSE k \in 1..Len(nums) :
             nums[k] = 0 /\ Cardinality({z \in 1..(k - 1) : nums[z] = 0}) = i - 1

\* Literal l is the literal that the nonzero integer n denotes: variable |n|,
\* negated when n < 0.
Denotes(l, n) ==
    /\ l.value > 0
    /\ IF n < 0 THEN l.value + n = 0 ELSE l.value = n
    /\ l.negation = (n < 0)

\* Clause c consists of the literals that nums[from..to] denote.
ClauseOf(c, nums, from, to) ==
    /\ Len(c) = to - from + 1
    /\ \A j \in 1..Len(c) : Denotes(c[j], nums[from + j - 1])

\* C12: parse_dimacs_cnf returns, for a text whose integers fit an i32, the
\* clauses that the integers of the lines not starting with p or c spell:
\* each 0 closes a clause, each other integer n adds the literal of variable
\* |n| negated when n < 0, and the numbers after the last 0 make a last
\* clause unless there are none.
C12_ParsedAsWritten ==
    pc = "parsed" =>
        LET nums == Numbers(call.content)
            zeros == Cardinality({k \in 1..Len(nums) : nums[k] = 0})
            rest == Len(nums) - ZeroAt(nums, zeros)
        IN  /\ ~result.panic
            /\ Len(result.clauses) = zeros + (IF rest > 0 THEN 1 ELSE 0)
            /\ \A i \in 1..zeros :
                  ClauseOf(result.clauses[i], nums,
                           ZeroAt(nums, i - 1) + 1, ZeroAt(nums, i) - 1)
            /\ rest > 0 =>
                  ClauseOf(result.clauses[zeros + 1], nums,
                           ZeroAt(nums, zeros) + 1, Len(nums))

\* Some assignment of the variables of the clauses cls makes each of them
\* true.
SatisfiableCnf(cls) ==
    \E m \in [FormulaVariables(cls) -> BOOLEAN] :
        \A i \in 1..Len(cls) : \E j \in 1..Len(cls[i]) :
            m[cls[i][j].value] # cls[i][j].negation

\* The value under m of the literal written as text.
LiteralValue(m, text) ==
    IF str_starts_with(text, NotChar) THEN ~m[Tail(text)] ELSE m[text]

\* The value under m of the expression written as text: a conjunction of
\* disjunctions of literals.
TextValue(m, text) ==
    \A i \in 1..Len(Parts(text, AndChar)) :
        LET disjunction == Parts(Parts(text, AndChar)[i], OrChar)
        IN  \E j \in 1..Len(disjunction) : LiteralValue(m, disjunction[j])

\* The names that the texts of the input formula can hold.
InputNames == {Decimal(v) : v \in variables} \cup {<<>>}

\* The input formula is built from literals and the two operators: it has a
\* clause and each clause has a literal.
BuiltFromLiterals ==
    clauses # <<>> /\ \A i \in 1..Len(clauses) : clauses[i] # <<>>

\* C13: for an input built from literals, conjunction and disjunction,
\* TseitinEncoder::encode returns a formula that is satisfiable exactly when
\* the input formula is, and whose clauses without the root unit clause force
\* each auxiliary variable to the value of the subexpression it was allocated
\* for.
C13_EncodeIsEquisatisfiable ==
    (pc = "encoded" /\ BuiltFromLiterals) =>
        /\ ~result.panic
        /\ SatisfiableCnf(result.clauses) <=> Satisfiable
        /\ \A m \in [result.variables \cup InputNames -> BOOLEAN] :
              (\A i \in 1..(Len(result.clauses) - 1) :
                  \E j \in 1..Len(result.clauses[i]) :
                      m[result.clauses[i][j].value] # result.clauses[i][j].negation)
              => \A text \in DOMAIN result.variable_map :
                     m[result.variable_map[text]] = TextValue(m, text)

\* C14: conflict_analysis returns (-1, no clause) exactly when DL = 0; at
\* DL > 0 it returns a clause and the level 0 when the clause's literals are
\* on at most one level, else the second largest of their levels; that level
\* is at least 0 and below DL, and the level solve() then sets is lower than
\* the level it had.
C14_BacktrackLevelBelowDL ==
    [][/\ (pc # "analysed" /\ pc' = "analysed") =>
             IF dl' = 0
             THEN b' = -1 /\ learnt_clause' = None
             ELSE /\ learnt_clause' # None
                  /\ LET D == {assignments'[learnt_clause'[1][j].value].dl :
                                  j \in 1..Len(learnt_clause'[1])}
                     IN  IF Cardinality(D) <= 1 THEN b' = 0
                         ELSE b' \in D /\ Cardinality({y \in D : y > b'}) = 1
                  /\ 0 <= b' /\ b' < dl'
       /\ pc = "set_level" => (dl' = b /\ dl' < dl)]_vars

\* C14 witness: conflict_analysis has returned a level above 0 for a clause
\* whose literals are on two levels.
C14_Witness ==
    /\ pc = "analysed"
    /\ learnt_clause # None
    /\ b > 0
    /\ Cardinality(decision_levels(assignments, learnt_clause[1])) = 2

\* C15: no learned clause, as returned by conflict_analysis and as appended
\* to the database, has a literal together with its negation, and all its
\* variables are in the formula's variable set.
C15_LearnedClauseIsClean ==
    LET Clean(c) ==
            /\ \A j, k \in 1..Len(c) :
                   ~(c[j].value = c[k].value /\ c[j].negation # c[k].negation)
            /\ \A j \in 1..Len(c) : c[j].value \in variables
    IN  /\ (pc = "analysed" /\ learnt_clause # None) => Clean(learnt_clause[1])
        /\ \A i \in (nInput + 1)..Len(clauses) : Clean(clauses[i])
        /\ variables = FormulaVariables(SubSeq(clauses, 1, nInput))

\* C15 witness: a clause of two literals was learned and appended.
C15_Witness ==
    /\ Len(clauses) > nInput
    /\ Len(clauses[Len(clauses)]) >= 2
    /\ pc = "backtrack"

\* The decisions on the trail: the variables whose entry has no antecedent.
Decisions == {v \in DOMAIN assignments : assignments[v].antecedent = None}

\* C16: where solve() is about to propagate or to decide, DL is the number
\* of decisions on the trail: each level 1..DL has exactly one decision, and
\* level 0 has none.
C16_LevelCountsDecisions ==
    pc \in {"first_propagation", "propagation", "while", "decide"} =>
        /\ Cardinality(Decisions) = dl
        /\ \A k \in 1..dl :
              Cardinality({v \in Decisions : assignments[v].dl = k}) = 1
        /\ \A v \in Decisions : assignments[v].dl # 0

\* C16 witness: solve() is about to propagate after a backjump to a level
\* above 0.
C16_Witness ==
    /\ pc = "propagation"
    /\ idx = 0
    /\ learnt_clause # None
    /\ dl = b
    /\ dl >= 1

\* C17: every assign writes a trail entry for a variable of the formula that
\* had none, and pick_branching_variable is called only while a variable is
\* unassigned.
C17_AssignTargetsUnassigned ==
    [][/\ pc = "decide" => pick_branching_variable(assignments, variables) # {}
       /\ pc' # "panic"
       /\ \A v \in DOMAIN assignments' :
             (v \notin DOMAIN assignments \/ assignments'[v] # assignments[v])
             => (v \notin DOMAIN assignments /\ v \in variables)]_vars

\* C17 witness: pick_branching_variable is about to be called above level 0,
\* with a decision and a propagated entry on the trail.
C17_Witness ==
    /\ pc = "decide"
    /\ dl >= 1
    /\ \E v \in DOMAIN assignments : assignments[v].antecedent # None

\* C18: when conflict_analysis is called at DL > 0 the conflict clause has a
\* literal assigned at level DL; the conflict clause and every resolvent have
\* all their literals assigned and false; no lookup panics.
C18_AnalysisLookupsSucceed ==
    /\ pc # "panic"
    /\ (pc = "conflict_analysis" /\ dl > 0) =>
          /\ \A j \in 1..Len(conflict[1]) : IsFalse(assignments, conflict[1][j])
          /\ \E j \in 1..Len(conflict[1]) : assignments[conflict[1][j].value].dl = dl
    /\ pc = "resolution" =>
          /\ \A j \in 1..Len(current_clause) : IsFalse(assignments, current_clause[j])
          /\ \A j \in 1..Len(literals) : literals[j].value \in DOMAIN assignments

\* C18 witness: the loop of conflict_analysis holds a resolvent with two
\* literals at the current level and is about to resolve again.
C18_Witness ==
    /\ pc = "resolution"
    /\ iterations >= 1
    /\ Len(literals) >= 2
    /\ WithAntecedent(assignments, literals) # <<>>

\* 2^n
RECURSIVE Pow2(_)
Pow2(n) == IF n = 0 THEN 1 ELSE 2 * Pow2(n - 1)

\* C19: the loop of conflict_analysis ends whichever pivot is picked: with n
\* propagated entries at the current level it runs fewer than 2^n times, and
\* while it runs a resolvent exists for the pivot.
C19_ResolutionLoopEnds ==
    pc = "resolution" =>
        LET n == Cardinality({v \in DOMAIN assignments :
                     assignments[v].dl = dl /\ assignments[v].antecedent # None})
            ls == WithAntecedent(assignments, literals)
        IN  /\ iterations < Pow2(n)
            /\ (Len(literals) # 1 /\ ls # <<>>) =>
                  resolve(current_clause,
                          assignments[Head(ls).value].antecedent[1],
                          Head(ls).value) # {}

\* C19 witness: the loop has run twice and goes on.
C19_Witness ==
    /\ pc = "resolution"
    /\ iterations >= 2
    /\ Len(literals) # 1

\* The set of the literals of clause c.
LiteralSet(c) == {c[j] : j \in 1..Len(c)}

\* C20: resolve(A, B, x) returns the literals of A and of B without the two
\* literals of x, each once; resolve(B, A, x) returns the same set of
\* literals; and resolve(A, A, x) returns the literals of A without the two
\* literals of x.
C20_ResolveIsSetUnion ==
    pc = "resolved" =>
        LET pivot == {Literal(call.x, TRUE), Literal(call.x, FALSE)}
        IN  /\ LiteralSet(result) =
                   (LiteralSet(call.a) \cup LiteralSet(call.b)) \ pivot
            /\ Cardinality(LiteralSet(result)) = Len(result)
            /\ \A r \in resolve(call.b, call.a, call.x) :
                   LiteralSet(r) = LiteralSet(result)
            /\ \A r \in resolve(call.a, call.a, call.x) :
                   /\ LiteralSet(r) = LiteralSet(call.a) \ pivot
                   /\ Cardinality(LiteralSet(r)) = Len(r)

\* C20 witness: resolve has returned one literal for two clauses that hold
\* the two polarities of x and share their other literal.
C20_Witness ==
    /\ pc = "resolved"
    /\ Literal(call.x, FALSE) \in LiteralSet(call.a)
    /\ Literal(call.x, TRUE) \in LiteralSet(call.b)
    /\ Len(call.a) = 2 /\ Len(call.b) = 2
    /\ Len(result) = 1
    /\ result[1] \in LiteralSet(call.a) \cap LiteralSet(call.b)

====
